---- MODULE Spec2Model ----
(***************************************************************************)
(* Book-recommendation service (vishwanath79/liberopus).                   *)
(*                                                                         *)
(* The repository holds several revisions of the same service.  A          *)
(* behaviour of this model is one run of one revision; the variable rev    *)
(* fixes which one:                                                        *)
(*   "api"  - src/api.py                (cursor based handlers)            *)
(*   "app"  - src/app/api.py            (connection based handlers and     *)
(*                                       the oracle, src/app/llm_recommender.py) *)
(*   "main" - src/main.py               (earliest handlers)                *)
(*   "br"   - src/book-recommender/src/api.py                              *)
(*   "scorer" - the Topic Scorer of the design, which none of the          *)
(*              revisions above contains                                   *)
(*                                                                         *)
(* Averages are REAL values in the code; they are kept here as integers in *)
(* units of 1/Scale.                                                       *)
(***************************************************************************)
EXTENDS Integers, Sequences, FiniteSets, TLC

VARIABLES
    rev,        \* the revision this run executes
    books,      \* table books: sequence of rows in rowid order
    ratings,    \* table ratings: sequence of rows [book_id, rating]
    dismissed,  \* table dismissed_books: sequence of book ids
    wishlist,   \* table wishlist(s): sequence of rows [book_id, display_order]
    last,       \* the response to the last request
    api_key,    \* GOOGLE_API_KEY is configured (llm_recommender.py module state)
    pc,         \* position of the get-recommendations request of "app":
                \* "idle", "attempt", "sleep", "done"
    req,        \* its request-scoped data
    attempt_number, \* tenacity's attempt counter of the running oracle call
    calls,      \* number of remote model invocations made by the running call
    outcomes,   \* outcomes of those invocations, in order
    waits,      \* the sleeps tenacity made between the attempts of the running call
    elapsed,    \* time units since the running oracle call started
    hashseed,   \* the seed of str hashing of the running process (PYTHONHASHSEED)
    log,        \* logs/recommendations.txt: sequence of written lines
    writers,    \* the running calls of log_recommendations
    failing     \* the datastore reads that fail in this run

store == <<books, ratings, dismissed, wishlist>>
oracle == <<pc, req, attempt_number, calls, outcomes, waits, elapsed>>
vars == <<rev, books, ratings, dismissed, wishlist, last, api_key,
          pc, req, attempt_number, calls, outcomes, waits, elapsed,
          hashseed, log, writers, failing>>

----------------------------------------------------------------------------
(* Bounds of the model *)

NumBooks == 2          \* rows of the imported CSV file
MaxRatings == 2        \* rows of table ratings
MaxDismissed == 1      \* rows of table dismissed_books

(* Program constants *)

Scale == 60            \* unit of the averages: 1/60, exact for up to 6 rows
NULL == "NULL"
NoValue == -1

----------------------------------------------------------------------------
(* Sequences *)

Range(s) == { s[i] : i \in 1..Len(s) }

Take(s, n) == IF Len(s) <= n THEN s ELSE SubSeq(s, 1, n)

Perms(S) == { s \in [1..Cardinality(S) -> S] : \A i, j \in 1..Cardinality(S) : s[i] = s[j] => i = j }

RECURSIVE SumOf(_)
SumOf(s) == IF s = <<>> THEN 0 ELSE Head(s) + SumOf(Tail(s))

----------------------------------------------------------------------------
(* Identifiers *)

\* hashlib.sha256(...).hexdigest()[:16], injective on the strings of the model
sha256_hex16(s) == "#" \o s

generate_book_id(title, author) == sha256_hex16(title \o author)

----------------------------------------------------------------------------
(* The Goodreads export the service imports at startup *)

Library == <<
    [Title |-> "Clean Code", Author |-> "Robert C. Martin", AverageRating |-> 255],
    [Title |-> "Dune",       Author |-> "Frank Herbert",    AverageRating |-> 210],
    [Title |-> "Emma",       Author |-> "Jane Austen",      AverageRating |-> 255],
    [Title |-> "Ulysses",    Author |-> "James Joyce",      AverageRating |-> 0] >>

CsvFiles == { SubSeq(Library, 1, n) : n \in 0..NumBooks }

BookRow(id, title, author, avg) ==
    [id |-> id, title |-> title, author |-> author, average_rating |-> avg]

RECURSIVE import_goodreads_books(_, _)
import_goodreads_books(csv, table) ==
    IF csv = <<>> THEN table
    ELSE LET row == Head(csv)
             id == generate_book_id(row.Title, row.Author)
             kept == SelectSeq(table, LAMBDA b : b.id # id)
         IN import_goodreads_books(Tail(csv),
                Append(kept, BookRow(id, row.Title, row.Author, row.AverageRating)))

----------------------------------------------------------------------------
(* Queries *)

BookIds(table) == { table[i].id : i \in 1..Len(table) }

BookExists(table, book_id) == book_id \in BookIds(table)

RatingsOf(rows, book_id) == SelectSeq(rows, LAMBDA r : r.book_id = book_id)

RatingValues(rows) == [i \in 1..Len(rows) |-> rows[i].rating]

\* SELECT AVG(rating) FROM ratings WHERE book_id = ?   (NULL without rows)
AVG(rows, book_id) ==
    LET mine == RatingsOf(rows, book_id)
    IN IF mine = <<>> THEN NoValue
       ELSE (Scale * SumOf(RatingValues(mine))) \div Len(mine)

\* avg_rating or 0, COALESCE(AVG(r.rating), 0)
OrZero(avg) == IF avg = NoValue THEN 0 ELSE avg

SetAverage(table, book_id, avg) ==
    [i \in 1..Len(table) |->
        IF table[i].id = book_id THEN [table[i] EXCEPT !.average_rating = avg]
        ELSE table[i]]

----------------------------------------------------------------------------
(* Requests *)

BookIdInputs ==
    { generate_book_id(Library[i].Title, Library[i].Author) : i \in 1..NumBooks }
        \cup {"missing"}

RatingInputs == {0, 3, 5, 6}

UserRatingValues == {3, 5}

UserRatingsInputs ==
    UNION { [S -> UserRatingValues] : S \in SUBSET (BookIdInputs \ {"missing"}) }

\* a response; existing_rating records whether the rated book had a rating row
\* when the request arrived
Response(op, status, cause) ==
    [op |-> op, status |-> status, cause |-> cause, book_id |-> NULL,
     rating |-> NoValue, average_rating |-> NoValue,
     user_ratings |-> <<>>, recommendations |-> <<>>,
     existing_rating |-> FALSE,
     duplicates_removed |-> NoValue,
     oracle |-> [raised |-> FALSE, value |-> <<>>]]

----------------------------------------------------------------------------
(* src/api.py *)

\* the check without its upper limit
add_rating_valid_lower_only(rating) == 1 <= rating

add_rating_valid(rating) == 1 <= rating /\ rating <= 5

\* the insert without the look-up of an existing row
add_rating_rows_insert_only(rows, book_id, rating) ==
    Append(rows, [book_id |-> book_id, rating |-> rating])

add_rating_rows(rows, book_id, rating) ==
    IF RatingsOf(rows, book_id) # <<>>
    THEN [i \in 1..Len(rows) |->
            IF rows[i].book_id = book_id THEN [rows[i] EXCEPT !.rating = rating]
            ELSE rows[i]]
    ELSE Append(rows, [book_id |-> book_id, rating |-> rating])

add_rating_average(rows, book_id) == OrZero(AVG(rows, book_id))

add_rating(book_id, rating) ==
    /\ rev = "api"
    /\ pc = "idle"
    /\ IF ~BookExists(books, book_id)
       THEN /\ last' = [Response("add_rating", 500, 404) EXCEPT
                          !.book_id = book_id, !.rating = rating]
            /\ UNCHANGED store
       ELSE IF ~add_rating_valid(rating)
       THEN /\ last' = [Response("add_rating", 500, 400) EXCEPT
                          !.book_id = book_id, !.rating = rating]
            /\ UNCHANGED store
       ELSE LET rows == add_rating_rows(ratings, book_id, rating)
                avg == add_rating_average(rows, book_id)
            IN /\ Len(rows) <= MaxRatings
               /\ ratings' = rows
               /\ books' = SetAverage(books, book_id, avg)
               /\ last' = [Response("add_rating", 200, 0) EXCEPT
                             !.book_id = book_id, !.rating = rating,
                             !.existing_rating = (RatingsOf(ratings, book_id) # <<>>),
                             !.average_rating = avg]
               /\ UNCHANGED <<dismissed, wishlist>>
    /\ UNCHANGED <<rev, api_key, failing, hashseed, log, writers, oracle>>

dismiss_book(book_id) ==
    /\ rev = "api"
    /\ pc = "idle"
    /\ IF ~BookExists(books, book_id)
       THEN /\ last' = [Response("dismiss_book", 500, 404) EXCEPT !.book_id = book_id]
            /\ UNCHANGED store
       ELSE /\ Len(dismissed) < MaxDismissed
            /\ dismissed' = Append(dismissed, book_id)
            /\ last' = [Response("dismiss_book", 200, 0) EXCEPT !.book_id = book_id]
            /\ UNCHANGED <<books, ratings, wishlist>>
    /\ UNCHANGED <<rev, api_key, failing, hashseed, log, writers, oracle>>

\* LIMIT 5
RecLimit == 5

\* books b LEFT JOIN ratings r ON b.id = r.book_id GROUP BY b.id,
\* with COALESCE(AVG(r.rating), 0) as average_rating
JoinAverage(table, rows) ==
    [i \in 1..Len(table) |->
        [table[i] EXCEPT !.average_rating = OrZero(AVG(rows, table[i].id))]]

\* the orders in which a query may deliver the rows s
Orderings(s) == { [i \in 1..Len(s) |-> s[p[i]]] : p \in Perms(1..Len(s)) }

\* ORDER BY average_rating DESC; rows of equal average come in any order
OrderByAverageDesc(s) ==
    { o \in Orderings(s) :
        \A i, j \in 1..Len(o) : i < j => o[i].average_rating >= o[j].average_rating }

\* WHERE b.id NOT IN (rated_books)
NotRated(s, rated_books) == SelectSeq(s, LAMBDA b : b.id \notin rated_books)

\* the result sets the SELECT of get_recommendations may deliver
get_recommendations_query(table, rows, rated_books) ==
    IF rated_books # {}
    THEN { Take(o, RecLimit) :
             o \in OrderByAverageDesc(NotRated(JoinAverage(table, rows), rated_books)) }
    ELSE { Take(o, RecLimit) : o \in Orderings(JoinAverage(table, rows)) }

MaxBooks == 3          \* rows of table books

\* the values LOWER(HEX(RANDOMBLOB(8))) may give
RandomIds == { "r" \o ToString(i) : i \in 1..MaxBooks }

\* lines 416-421: UPDATE books SET id = LOWER(HEX(RANDOMBLOB(8)))
\* WHERE id IS NULL OR id = ''; every such row gets a random value of its own
ensure_book_ids(table) ==
    { [i \in 1..Len(table) |->
          IF table[i].id \in {NULL, ""} THEN [table[i] EXCEPT !.id = f[i]] ELSE table[i]] :
        f \in { g \in [1..Len(table) -> RandomIds] :
                  \A i, j \in 1..Len(table) :
                      table[i].id \in {NULL, ""} =>
                          /\ g[i] \notin BookIds(table)
                          /\ (j # i /\ table[j].id \in {NULL, ""}) => g[i] # g[j] } }

\* what the context manager get_db_cursor() does with the transaction when
\* its block raises
get_db_cursor_exit == {"commit", "rollback"}

\* the reads of the datastore a get-recommendations request makes: the
\* SELECT COUNT(*) of src/app/api.py, the SELECT of the books, the SELECT of
\* the default books of src/app/api.py
ReadPoints == {"count", "select", "default"}

ReadPointsOf(r) == IF r = "app" THEN ReadPoints ELSE {"select"}

\* cursor.execute(), db.execute() or fetchall() raises
read_fails(point) == point \in failing

\* an except clause that answers with what the handler has built so far
except_Exception_returns_built(response, built) ==
    [response EXCEPT !.status = 200, !.cause = 0, !.recommendations = built]

\* except Exception as e: raise HTTPException(status_code=500, detail=str(e))
except_Exception(response, built) ==
    [response EXCEPT !.status = 500, !.cause = 500, !.recommendations = <<>>]

get_recommendations(user_ratings) ==
    /\ rev = "api"
    /\ pc = "idle"
    /\ \E table \in ensure_book_ids(books) :
          IF read_fails("select")
          THEN /\ \E exit \in get_db_cursor_exit :
                    books' = IF exit = "commit" THEN table ELSE books
               /\ last' = except_Exception(
                             [Response("get_recommendations", 0, 0) EXCEPT
                                !.user_ratings = user_ratings], <<>>)
          ELSE /\ books' = table
               /\ \E result \in get_recommendations_query(table, ratings, DOMAIN user_ratings) :
                     last' = [Response("get_recommendations", 200, 0) EXCEPT
                                !.user_ratings = user_ratings,
                                !.recommendations = result]
    /\ UNCHANGED <<rev, api_key, failing, hashseed, log, writers, ratings, dismissed, wishlist, oracle>>

----------------------------------------------------------------------------
(* src/book-recommender/src/api.py *)

rate_book(book_id, rating) ==
    /\ rev = "br"
    /\ pc = "idle"
    /\ IF ~BookExists(books, book_id)
       THEN /\ last' = [Response("rate_book", 500, 404) EXCEPT
                          !.book_id = book_id, !.rating = rating]
            /\ UNCHANGED store
       ELSE IF ~(1 <= rating /\ rating <= 5)
       THEN /\ last' = [Response("rate_book", 500, 400) EXCEPT
                          !.book_id = book_id, !.rating = rating]
            /\ UNCHANGED store
       ELSE LET rows == IF RatingsOf(ratings, book_id) # <<>>
                        THEN [i \in 1..Len(ratings) |->
                                IF ratings[i].book_id = book_id
                                THEN [ratings[i] EXCEPT !.rating = rating]
                                ELSE ratings[i]]
                        ELSE Append(ratings, [book_id |-> book_id, rating |-> rating])
                avg == OrZero(AVG(rows, book_id))
            IN /\ Len(rows) <= MaxRatings
               /\ ratings' = rows
               /\ books' = SetAverage(books, book_id, avg)
               /\ last' = [Response("rate_book", 200, 0) EXCEPT
                             !.book_id = book_id, !.rating = rating,
                             !.existing_rating = (RatingsOf(ratings, book_id) # <<>>),
                             !.average_rating = avg]
               /\ UNCHANGED <<dismissed, wishlist>>
    /\ UNCHANGED <<rev, api_key, failing, hashseed, log, writers, oracle>>

----------------------------------------------------------------------------
(* src/app/api.py *)

\* schema.sql of this revision: ratings.book_id is UNIQUE
ratings_book_id_unique == TRUE

\* INSERT OR REPLACE INTO ratings (book_id, rating, timestamp): a row that
\* conflicts on a unique column is deleted before the new row is inserted
INSERT_OR_REPLACE(rows, row) ==
    IF ratings_book_id_unique
    THEN Append(SelectSeq(rows, LAMBDA r : r.book_id # row.book_id), row)
    ELSE Append(rows, row)

submit_rating_valid(rating) == 1 <= rating /\ rating <= 5

submit_rating(book_id, rating) ==
    /\ rev = "app"
    /\ pc = "idle"
    /\ IF ~BookExists(books, book_id)
       THEN /\ last' = [Response("submit_rating", 500, 404) EXCEPT
                          !.book_id = book_id, !.rating = rating]
            /\ UNCHANGED store
       ELSE IF ~submit_rating_valid(rating)
       THEN /\ last' = [Response("submit_rating", 500, 400) EXCEPT
                          !.book_id = book_id, !.rating = rating]
            /\ UNCHANGED store
       ELSE LET rows == INSERT_OR_REPLACE(ratings, [book_id |-> book_id, rating |-> rating])
            IN /\ Len(rows) <= MaxRatings
               /\ ratings' = rows
               /\ last' = [Response("submit_rating", 200, 0) EXCEPT
                             !.book_id = book_id, !.rating = rating,
                             !.existing_rating = (RatingsOf(ratings, book_id) # <<>>)]
               /\ UNCHANGED <<books, dismissed, wishlist>>
    /\ UNCHANGED <<rev, api_key, failing, hashseed, log, writers, oracle>>

----------------------------------------------------------------------------
(* src/app/llm_recommender.py *)

\* a key the dict does not have
Absent == "absent"

Candidate(id, title, author, avg) ==
    [id |-> id, title |-> title, author |-> author, average_rating |-> avg]

\* an item as the model or the fallback pool gives it: no 'id' key
RawItem(title, author) == Candidate(Absent, title, author, NoValue)

\* fallback_books
FallbackPool == <<
    RawItem("Clean Code", "Robert C. Martin"),
    RawItem("Design Patterns", "Erich Gamma et al."),
    RawItem("Python Crash Course", "Eric Matthes"),
    RawItem("The Pragmatic Programmer", "Andrew Hunt and David Thomas"),
    RawItem("JavaScript: The Good Parts", "Douglas Crockford") >>

Min(a, b) == IF a <= b THEN a ELSE b

\* random.sample(population, k): k distinct positions in any order
random_sample(population, k) ==
    { [i \in 1..k |-> population[p[i]]] :
        p \in { q \in [1..k -> 1..Len(population)] :
                  \A i, j \in 1..k : q[i] = q[j] => i = j } }

\* the lists get_fallback_recommendations() may return
get_fallback_recommendations == random_sample(FallbackPool, Min(5, Len(FallbackPool)))

\* one attempt less
stop_after_attempt_two == 2

\* one attempt more
stop_after_attempt_four == 4

\* stop_after_attempt(3)
stop_after_attempt == 3

\* what one execution of the body of generate_gemini_recommendations can meet
\* once the model is invoked
ModelItems == {
    RawItem("Clean Code", "Robert C. Martin"),
    RawItem("Refactoring", "Martin Fowler"),
    RawItem(Absent, "Martin Fowler"),
    RawItem("Refactoring", Absent) }

MaxItems == 2

\* an element that is no dict (a string): rec['title'] raises TypeError
NotADict == RawItem(Absent, Absent)

\* an answer that lists one book more than the prompt asked for
LongAnswer ==
    [kind |-> "list",
     items |-> [i \in 1..(RecLimit + 1) |-> RawItem("Volume " \o ToString(i), "Martin Fowler")]]

ModelAnswers ==
    { [kind |-> "list", items |-> s] :
        s \in UNION { [1..n -> ModelItems] : n \in 1..MaxItems } }
    \cup { LongAnswer,
           [kind |-> "object", items |-> <<NotADict>>],  \* a JSON object: iterates its keys
           [kind |-> "number", items |-> <<>>] }         \* a truthy scalar: not iterable

AttemptOutcomes ==
    { [kind |-> k, items |-> <<>>] : k \in {"timeout", "error", "parse", "empty"} }
    \cup ModelAnswers

\* what a call returns or raises
Returned(value) == [raised |-> FALSE, value |-> value]
Raised == [raised |-> TRUE, value |-> <<>>]

\* lines 192-209: items without title or author are skipped
format_recommendation(rec) ==
    IF rec.title = Absent \/ rec.author = Absent THEN <<>>
    ELSE << Candidate(generate_book_id(rec.title, rec.author), rec.title, rec.author, 0) >>

RECURSIVE format_recommendations(_)
format_recommendations(llm_recommendations) ==
    IF llm_recommendations = <<>> THEN <<>>
    ELSE format_recommendation(Head(llm_recommendations))
            \o format_recommendations(Tail(llm_recommendations))

\* lines 164-212, from the return of generate_gemini_recommendations on
get_personalized_recommendations_body(llm) ==
    IF llm.raised THEN {Raised}
    ELSE IF llm.value.kind = "number" THEN {Raised}
    ELSE {Returned(format_recommendations(llm.value.items))}

\* the entry point without its except clause
get_personalized_recommendations_no_except(results) == results

\* lines 214-218: except Exception: return get_fallback_recommendations()
get_personalized_recommendations_except(results) ==
    UNION { IF r.raised THEN { Returned(f) : f \in get_fallback_recommendations }
            ELSE {r} : r \in results }

\* lines 169-180: the rated books found in the history
rated_books(user_history, user_ratings) ==
    { id \in DOMAIN user_ratings : \E i \in 1..Len(user_history) : user_history[i].id = id }

\* the body without the credential check
credential_missing_unchecked(key) == FALSE

\* lines 92-94: if not GOOGLE_API_KEY
credential_missing(key) == ~key

\* every exception of the invocation re-raised like the timeout
retryable_any_exception(kind) == kind \in {"timeout", "error"}

\* the parse failure re-raised like the timeout
retryable_parse_too(kind) == kind \in {"timeout", "parse"}

\* lines 146-148: only asyncio.TimeoutError leaves the body, so only it is retried
retryable(kind) == kind = "timeout"

Max(a, b) == IF a >= b THEN a ELSE b

\* wait_exponential(multiplier=1, min=4, max=10)
wait_multiplier == 1
wait_min == 4
wait_max == 10

\* a backoff that doubles from the minimum: 4, 8, 10
wait_exponential_doubling(attempt) ==
    Min(wait_min * 2 ^ (attempt - 1), wait_max)

\* tenacity's wait_exponential.__call__ after the failed attempt attempt:
\* max(max(0, min), min(multiplier * 2 ** (attempt - 1), max))
wait_exponential(attempt) ==
    Max(Max(0, wait_min), Min(wait_multiplier * 2 ^ (attempt - 1), wait_max))

\* asyncio.wait_for(..., timeout=15)
timeout == 15

\* the times an answer of the model may take
AnswerTimes == {1, 14}

\* the time one execution of the body takes from the invocation on
attempt_time(kind) == IF kind = "timeout" THEN {timeout} ELSE AnswerTimes

\* lines 137-157 of one execution of the body, for the outcomes that return
generate_gemini_recommendations_return(outcome) ==
    IF outcome.kind \in {"error", "parse", "empty"}
    THEN { Returned([kind |-> "list", items |-> f]) : f \in get_fallback_recommendations }
    ELSE { Returned(outcome) }

----------------------------------------------------------------------------
(* src/app/api.py: get_recommendations *)

UserHistoryInputs ==
    { SubSeq([i \in 1..NumBooks |-> generate_book_id(Library[i].Title, Library[i].Author)], 1, n) :
        n \in 0..NumBooks }

\* lines 450-485
book_history_query(table, rows, user_history) ==
    IF user_history # <<>>
    THEN Orderings(SelectSeq(JoinAverage(table, rows), LAMBDA b : b.id \in Range(user_history)))
    ELSE { Take(o, RecLimit) : o \in Orderings(JoinAverage(table, rows)) }

\* lines 496-519
default_recommendations(table, rows, recommendations) ==
    IF recommendations = <<>>
    THEN { Take(o, RecLimit) : o \in Orderings(JoinAverage(table, rows)) }
    ELSE { recommendations }

\* lines 494-525: the handler from the return of the oracle on
get_recommendations_app_finish(result) ==
    /\ IF result.raised
       THEN last' = [Response("get_recommendations", 500, 500) EXCEPT
                       !.user_ratings = req.user_ratings,
                       !.oracle = result]
       ELSE IF result.value = <<>> /\ read_fails("default")
       THEN last' = except_Exception(
                       [Response("get_recommendations", 0, 0) EXCEPT
                          !.user_ratings = req.user_ratings,
                          !.oracle = result], result.value)
       ELSE \E recs \in default_recommendations(books, ratings, result.value) :
              last' = [Response("get_recommendations", 200, 0) EXCEPT
                         !.user_ratings = req.user_ratings,
                         !.oracle = result,
                         !.recommendations = recs]
    /\ pc' = "done"
    /\ req' = <<>>

get_recommendations_app(user_history, user_ratings) ==
    /\ rev = "app"
    /\ pc = "idle"
    /\ calls' = 0
    /\ outcomes' = <<>>
    /\ waits' = <<>>
    /\ elapsed' = 0
    /\ IF read_fails("count") \/ (Len(books) > 0 /\ read_fails("select"))
       THEN /\ last' = except_Exception(
                          [Response("get_recommendations", 0, 0) EXCEPT
                             !.user_ratings = user_ratings], <<>>)
            /\ attempt_number' = 0
            /\ pc' = "done"
            /\ UNCHANGED req
       ELSE IF Len(books) = 0
       THEN /\ last' = [Response("get_recommendations", 500, 500) EXCEPT
                          !.user_ratings = user_ratings]
            /\ attempt_number' = 0
            /\ pc' = "done"
            /\ UNCHANGED req
       ELSE \E book_history \in book_history_query(books, ratings, user_history) :
              IF rated_books(book_history, user_ratings) = {}
              THEN /\ attempt_number' = 0
                   /\ \E result \in get_personalized_recommendations_except(
                                      { Returned(f) : f \in get_fallback_recommendations }) :
                        \E recs \in default_recommendations(books, ratings, result.value) :
                          last' = [Response("get_recommendations", 200, 0) EXCEPT
                                     !.user_ratings = user_ratings,
                                     !.oracle = result,
                                     !.recommendations = recs]
                   /\ pc' = "done"
                   /\ UNCHANGED req
              ELSE /\ pc' = "attempt"
                   /\ attempt_number' = 1
                   /\ req' = [user_ratings |-> user_ratings]
                   /\ last' = [Response("get_recommendations", 0, 0) EXCEPT
                                 !.user_ratings = user_ratings]
    /\ UNCHANGED <<rev, api_key, failing, hashseed, log, writers, store>>

\* one execution of the body of the retried function, and what follows it
\* up to the next suspension of the request
generate_gemini_recommendations ==
    /\ rev = "app"
    /\ pc = "attempt"
    /\ IF credential_missing(api_key)
       THEN /\ \E result \in get_personalized_recommendations_except(
                   UNION { get_personalized_recommendations_body(Returned([kind |-> "list", items |-> f])) :
                             f \in get_fallback_recommendations }) :
                 get_recommendations_app_finish(result)
            /\ UNCHANGED <<calls, outcomes, attempt_number, waits, elapsed>>
       ELSE \E outcome \in AttemptOutcomes :
            /\ calls' = calls + 1
            /\ outcomes' = Append(outcomes, outcome.kind)
            /\ \E t \in attempt_time(outcome.kind) : elapsed' = elapsed + t
            /\ UNCHANGED waits
            /\ IF retryable(outcome.kind)
               THEN IF attempt_number >= stop_after_attempt
                    THEN /\ \E result \in get_personalized_recommendations_except(
                                            get_personalized_recommendations_body(Raised)) :
                              get_recommendations_app_finish(result)
                         /\ UNCHANGED attempt_number
                    ELSE /\ pc' = "sleep"
                         /\ UNCHANGED <<req, last, attempt_number>>
               ELSE /\ \E llm \in generate_gemini_recommendations_return(outcome) :
                        \E result \in get_personalized_recommendations_except(
                                        get_personalized_recommendations_body(llm)) :
                          get_recommendations_app_finish(result)
                    /\ UNCHANGED attempt_number
    /\ UNCHANGED <<rev, api_key, failing, hashseed, log, writers, store>>

\* tenacity sleeps, then runs the body again
tenacity_retry ==
    /\ rev = "app"
    /\ pc = "sleep"
    /\ pc' = "attempt"
    /\ waits' = Append(waits, wait_exponential(attempt_number))
    /\ elapsed' = elapsed + wait_exponential(attempt_number)
    /\ attempt_number' = attempt_number + 1
    /\ UNCHANGED <<rev, api_key, failing, hashseed, log, writers, store, last, req, calls, outcomes>>

----------------------------------------------------------------------------
(* src/main.py, src/models.py *)

\* Rating.__post_init__ accepts the value
Rating_post_init(rating) == 1 <= rating /\ rating <= 5

submit_rating_main(book_id, rating) ==
    /\ rev = "main"
    /\ pc = "idle"
    /\ IF ~Rating_post_init(rating)
       THEN /\ last' = [Response("submit_rating", 422, 422) EXCEPT
                          !.book_id = book_id, !.rating = rating]
            /\ UNCHANGED store
       ELSE /\ Len(ratings) < MaxRatings
            /\ ratings' = Append(ratings, [book_id |-> book_id, rating |-> rating])
            /\ last' = [Response("submit_rating", 200, 0) EXCEPT
                          !.book_id = book_id, !.rating = rating,
                          !.existing_rating = (RatingsOf(ratings, book_id) # <<>>)]
            /\ UNCHANGED <<books, dismissed, wishlist>>
    /\ UNCHANGED <<rev, api_key, failing, hashseed, log, writers, oracle>>

----------------------------------------------------------------------------
(* src/api.py, src/app/api.py: log_recommendations *)

\* the processes that may run log_recommendations at the same time
Writers == {1, 2}

\* no call of log_recommendations is running
NoWriters == [w \in Writers |-> [pc |-> "idle", todo |-> <<>>, pending |-> <<>>]]

MaxLogBooks == 3       \* recommendations one log entry lists

\* the capacity of the write buffer of the file object that open() returns
\* (io.DEFAULT_BUFFER_SIZE bytes), counted in f.write() calls of the model
buffer_size == 3

LogLine(w, kind) == [writer |-> w, kind |-> kind]

\* the f.write() calls of one call, lines 333-364: the separator that opens
\* the entry, what is written for each of the n recommendations, the
\* end-of-entry marker
log_entry(w, n) ==
    <<LogLine(w, "open")>> \o [i \in 1..n |-> LogLine(w, "book")] \o <<LogLine(w, "end")>>

\* line 332: with open(log_file, "a", encoding="utf-8") as f
log_recommendations(w, n) ==
    /\ rev \in {"api", "app"}
    /\ writers[w].pc = "idle"
    /\ writers' = [writers EXCEPT ![w] = [pc |-> "writing", todo |-> log_entry(w, n),
                                          pending |-> <<>>]]
    /\ UNCHANGED <<rev, api_key, failing, hashseed, store, last, oracle, log>>

\* one f.write(): the text goes to the buffer; a buffer grown beyond its
\* capacity is written to the file, at its end (mode "a")
f_write(w) ==
    /\ writers[w].pc = "writing"
    /\ writers[w].todo # <<>>
    /\ LET pending == Append(writers[w].pending, Head(writers[w].todo))
       IN IF Len(pending) > buffer_size
          THEN /\ log' = log \o pending
               /\ writers' = [writers EXCEPT ![w].todo = Tail(@), ![w].pending = <<>>]
          ELSE /\ writers' = [writers EXCEPT ![w].todo = Tail(@), ![w].pending = pending]
               /\ UNCHANGED log
    /\ UNCHANGED <<rev, api_key, failing, hashseed, store, last, oracle>>

\* the end of the with block: f.close() writes what the buffer still holds
f_close(w) ==
    /\ writers[w].pc = "writing"
    /\ writers[w].todo = <<>>
    /\ log' = log \o writers[w].pending
    /\ writers' = [writers EXCEPT ![w] = [pc |-> "closed", todo |-> <<>>, pending |-> <<>>]]
    /\ UNCHANGED <<rev, api_key, failing, hashseed, store, last, oracle>>

----------------------------------------------------------------------------
(* Startup *)

\* startup_event: init_db() and, except in src/main.py, import_goodreads_books()
startup_event(r, csv) ==
    IF r = "main" THEN <<>> ELSE import_goodreads_books(csv, <<>>)

Init ==
    /\ rev \in {"api", "app", "main", "br"}
    /\ \E csv \in CsvFiles : books = startup_event(rev, csv)
    /\ ratings = <<>>
    /\ dismissed = <<>>
    /\ wishlist = <<>>
    /\ last = Response("startup", 200, 0)
    /\ api_key = FALSE
    /\ pc = "idle"
    /\ req = <<>>
    /\ attempt_number = 0
    /\ calls = 0
    /\ outcomes = <<>>
    /\ waits = <<>>
    /\ elapsed = 0
    /\ hashseed = 1
    /\ log = <<>>
    /\ writers = NoWriters
    /\ failing = {}

Next ==
    \/ \E b \in BookIdInputs, r \in RatingInputs : add_rating(b, r)
    \/ \E b \in BookIdInputs : dismiss_book(b)
    \/ \E ur \in UserRatingsInputs : get_recommendations(ur)
    \/ \E b \in BookIdInputs, r \in RatingInputs : rate_book(b, r)
    \/ \E b \in BookIdInputs, r \in RatingInputs : submit_rating(b, r)
    \/ \E b \in BookIdInputs, r \in RatingInputs : submit_rating_main(b, r)

Spec == Init /\ [][Next]_vars

\* one get-recommendations request to the revision src/app, oracle included,
\* on the catalog as imported
InitOracle ==
    /\ rev = "app"
    /\ \E csv \in CsvFiles : books = startup_event(rev, csv)
    /\ ratings = <<>>
    /\ dismissed = <<>>
    /\ wishlist = <<>>
    /\ last = Response("startup", 200, 0)
    /\ api_key \in BOOLEAN
    /\ pc = "idle"
    /\ req = <<>>
    /\ attempt_number = 0
    /\ calls = 0
    /\ outcomes = <<>>
    /\ waits = <<>>
    /\ elapsed = 0
    /\ hashseed = 1
    /\ log = <<>>
    /\ writers = NoWriters
    /\ failing = {}

NextOracle ==
    \/ \E uh \in UserHistoryInputs, ur \in UserRatingsInputs : get_recommendations_app(uh, ur)
    \/ generate_gemini_recommendations
    \/ tenacity_retry

SpecOracle == InitOracle /\ [][NextOracle]_vars

----------------------------------------------------------------------------
(* src/main.py: RecommendationEngine, on the Book objects of src/models.py *)

NumEngineBooks == 3    \* length of available_books
MaxRankings == 2       \* numbers in the model's answer

\* models.Book: the dataclass has the attribute avg_rating and no attribute
\* average_rating
Book(id, title, author, topics, avg_rating) ==
    [id |-> id, title |-> title, author |-> author, topics |-> topics,
     avg_rating |-> avg_rating]

EngineLibrary == {
    Book("1", "A", "Ann", {"Python", "ML"}, 180),
    Book("2", "B", "Bob", {"python"}, 288),
    Book("3", "C", "Cy", {"Cooking"}, 288),
    Book("4", "D", "Di", {"ML", "Cooking"}, 60) }

\* the lists available_books may be: the books of a catalog in any order
AvailableBooksInputs ==
    UNION { Perms(S) : S \in { T \in SUBSET EngineLibrary : Cardinality(T) <= NumEngineBooks } }

NumRecommendationsInputs == {1, 2, 5}

EngineRatingsInputs(available_books) ==
    UNION { [S -> UserRatingValues] : S \in SUBSET BookIds(available_books) }

\* response.text as line 183 reads it: a comma separated list of integers,
\* or something else (int() raises ValueError), or no response at all
EngineResponses(n) ==
    { [kind |-> "rankings", rankings |-> r] :
        r \in UNION { [1..k -> 0..(n + 1)] : k \in 1..MaxRankings } }
    \cup { [kind |-> "error", rankings |-> <<>>] }

\* x.<attr> raises AttributeError
hasattr(x, attr) == attr \in DOMAIN x

\* dict.get(key, default)
dict_get(d, key, default) == IF key \in DOMAIN d THEN d[key] ELSE default

\* the sort without reverse=True
sorted_ascending(s, attr) ==
    LET pos(i) == 1 + Cardinality({ j \in 1..Len(s) : s[j][attr] < s[i][attr] })
                    + Cardinality({ j \in 1..(i - 1) : s[j][attr] = s[i][attr] })
    IN [p \in 1..Len(s) |-> s[CHOOSE i \in 1..Len(s) : pos(i) = p]]

\* sorted(s, key=lambda x: x.<attr>, reverse=True): a stable sort, elements of
\* equal key keep their order also under reverse=True
sorted_reverse(s, attr) ==
    LET pos(i) == 1 + Cardinality({ j \in 1..Len(s) : s[j][attr] > s[i][attr] })
                    + Cardinality({ j \in 1..(i - 1) : s[j][attr] = s[i][attr] })
    IN [p \in 1..Len(s) |-> s[CHOOSE i \in 1..Len(s) : pos(i) = p]]

\* sorted(unrated_books, key=lambda x: x.<attr>, reverse=True)[:num_recommendations]
top_rated(unrated_books, attr, num_recommendations) ==
    IF \E i \in 1..Len(unrated_books) : ~hasattr(unrated_books[i], attr)
    THEN Raised
    ELSE Returned(Take(sorted_reverse(unrated_books, attr), num_recommendations))

\* line 159
unrated_books_of(available_books, user_ratings) ==
    SelectSeq(available_books, LAMBDA book : book.id \notin DOMAIN user_ratings)

\* line 165
liked_books_of(user_books, user_ratings) ==
    SelectSeq(user_books, LAMBDA book : dict_get(user_ratings, book.id, 0) >= 4)

\* unrated_books[rank-1]: a negative index counts from the end of the list
list_index(s, idx) ==
    IF 0 <= idx /\ idx < Len(s) THEN Returned(s[idx + 1])
    ELSE IF idx < 0 /\ -idx <= Len(s) THEN Returned(s[Len(s) + idx + 1])
    ELSE Raised

\* lines 186-190
recommended_books(unrated_books, rankings, num_recommendations) ==
    LET picks == [i \in 1..Len(Take(rankings, num_recommendations)) |->
                    list_index(unrated_books, rankings[i] - 1)]
    IN IF \E i \in 1..Len(picks) : picks[i].raised THEN Raised
       ELSE Returned([i \in 1..Len(picks) |-> picks[i].value])

\* lines 158-190: the try block
RecommendationEngine_try(user_books, available_books, user_ratings, num_recommendations, response) ==
    LET unrated_books == unrated_books_of(available_books, user_ratings)
        liked_books == liked_books_of(user_books, user_ratings)
    IN IF unrated_books = <<>> THEN Returned(<<>>)
       ELSE IF liked_books = <<>>
       THEN top_rated(unrated_books, "average_rating", num_recommendations)
       ELSE IF response.kind = "error" THEN Raised
       ELSE recommended_books(unrated_books, response.rankings, num_recommendations)

\* lines 155-195: the try block and its except clause
RecommendationEngine_get_recommendations(user_books, available_books, user_ratings, num_recommendations, response) ==
    LET result == RecommendationEngine_try(user_books, available_books, user_ratings,
                                           num_recommendations, response)
    IN IF result.raised
       THEN top_rated(unrated_books_of(available_books, user_ratings), "avg_rating",
                      num_recommendations)
       ELSE result

\* lines 220-236: the call of the engine on the rated books of available_books
get_recommendations_main(user_ratings, num_recommendations, response) ==
    /\ rev = "main"
    /\ pc = "idle"
    /\ LET rated_books_main == SelectSeq(books, LAMBDA book : book.id \in DOMAIN user_ratings)
           result == RecommendationEngine_get_recommendations(
                        rated_books_main, books, user_ratings, num_recommendations, response)
       IN IF read_fails("select")
          THEN last' = except_Exception(
                          [Response("get_recommendations", 0, 0) EXCEPT
                             !.user_ratings = user_ratings], <<>>)
          ELSE last' = [Response("get_recommendations", IF result.raised THEN 500 ELSE 200,
                                 IF result.raised THEN 500 ELSE 0) EXCEPT
                          !.user_ratings = user_ratings,
                          !.oracle = RecommendationEngine_try(
                                        rated_books_main, books, user_ratings,
                                        num_recommendations, response),
                          !.recommendations = result.value]
    /\ req' = [num_recommendations |-> num_recommendations, response |-> response]
    /\ pc' = "done"
    /\ UNCHANGED <<rev, api_key, failing, hashseed, log, writers, books, ratings, dismissed, wishlist,
                   attempt_number, calls, outcomes, waits, elapsed>>

\* one call of the engine on a list of Book objects
InitEngine ==
    /\ rev = "main"
    /\ books \in AvailableBooksInputs
    /\ ratings = <<>>
    /\ dismissed = <<>>
    /\ wishlist = <<>>
    /\ last = Response("startup", 200, 0)
    /\ api_key = FALSE
    /\ pc = "idle"
    /\ req = <<>>
    /\ attempt_number = 0
    /\ calls = 0
    /\ outcomes = <<>>
    /\ waits = <<>>
    /\ elapsed = 0
    /\ hashseed = 1
    /\ log = <<>>
    /\ writers = NoWriters
    /\ failing = {}

NextEngine ==
    /\ pc = "idle"
    /\ \E ur \in EngineRatingsInputs(books), n \in NumRecommendationsInputs,
          response \in EngineResponses(Len(books)) :
            get_recommendations_main(ur, n, response)

SpecEngine == InitEngine /\ [][NextEngine]_vars

----------------------------------------------------------------------------
(* Adding books, importing again, restarting *)

\* the titles and authors a client adds
AddBookInputs == {
    [title |-> Library[1].Title, author |-> Library[1].Author],
    [title |-> "Refactoring", author |-> "Martin Fowler"] }

\* the values PYTHONHASHSEED takes in the runs of the service
Seeds == {1, 2}

\* hash(s) of a str: injective on the strings of the model, and different
\* from run to run
python_hash(s, seed) == "h" \o ToString(seed) \o ":" \o s

\* POST /add-book (src/api.py 207-234, src/app/api.py 234-262): the INSERT
\* names no id; the row is then looked up by cursor.lastrowid, is not found,
\* and convert_db_book_to_model(None) raises.  src/app/api.py has committed
\* by then (line 252).
add_book(title, author) ==
    /\ rev \in {"api", "app"}
    /\ pc = "idle"
    /\ Len(books) < MaxBooks
    /\ \E exit \in (IF rev = "app" THEN {"commit"} ELSE get_db_cursor_exit) :
          books' = IF exit = "commit"
                   THEN Append(books, BookRow(NULL, title, author, NoValue))
                   ELSE books
    /\ last' = Response("add_book", 500, 500)
    /\ UNCHANGED <<rev, api_key, failing, hashseed, log, writers, ratings, dismissed, wishlist, oracle>>

\* POST /books (src/app/api.py 636-668)
add_book_hashed(title, author) ==
    /\ rev = "app"
    /\ pc = "idle"
    /\ LET book_id == python_hash(title \o author, hashseed)
       IN IF BookExists(books, book_id)
          THEN /\ last' = [Response("add_book", 500, 400) EXCEPT !.book_id = book_id]
               /\ UNCHANGED books
          ELSE /\ Len(books) < MaxBooks
               /\ books' = Append(books, BookRow(book_id, title, author, 0))
               /\ last' = [Response("add_book", 200, 0) EXCEPT !.book_id = book_id]
    /\ UNCHANGED <<rev, api_key, failing, hashseed, log, writers, ratings, dismissed, wishlist, oracle>>

\* goodreads_library_export.csv as the service finds it
CsvInputs == { [exists |-> TRUE, rows |-> csv] : csv \in CsvFiles }
                \cup { [exists |-> FALSE, rows |-> <<>>] }

\* import_goodreads_books() on a filled database: without the file nothing
\* happens, with it books and ratings are deleted before the rows are inserted
import_goodreads_again(file) ==
    IF file.exists
    THEN /\ books' = import_goodreads_books(file.rows, <<>>)
         /\ ratings' = <<>>
    ELSE UNCHANGED <<books, ratings>>

\* POST /import-goodreads
import_goodreads(file) ==
    /\ rev \in {"api", "app"}
    /\ pc = "idle"
    /\ import_goodreads_again(file)
    /\ last' = Response("import_goodreads", 200, 0)
    /\ UNCHANGED <<rev, api_key, failing, hashseed, log, writers, dismissed, wishlist, oracle>>

\* the service is stopped and started again: a new process, startup_event()
restart(file, seed) ==
    /\ rev \in {"api", "app"}
    /\ pc = "idle"
    /\ hashseed' = seed
    /\ import_goodreads_again(file)
    /\ last' = Response("startup", 200, 0)
    /\ UNCHANGED <<rev, api_key, failing, log, writers, dismissed, wishlist, oracle>>

InitCatalog ==
    /\ rev \in {"api", "app"}
    /\ \E csv \in CsvFiles : books = startup_event(rev, csv)
    /\ ratings = <<>>
    /\ dismissed = <<>>
    /\ wishlist = <<>>
    /\ last = Response("startup", 200, 0)
    /\ api_key = FALSE
    /\ pc = "idle"
    /\ req = <<>>
    /\ attempt_number = 0
    /\ calls = 0
    /\ outcomes = <<>>
    /\ waits = <<>>
    /\ elapsed = 0
    /\ hashseed \in Seeds
    /\ log = <<>>
    /\ writers = NoWriters
    /\ failing = {}

NextCatalog ==
    \/ \E b \in AddBookInputs : add_book(b.title, b.author)
    \/ \E b \in AddBookInputs : add_book_hashed(b.title, b.author)
    \/ \E ur \in UserRatingsInputs : get_recommendations(ur)
    \/ \E file \in CsvInputs : import_goodreads(file)
    \/ \E file \in CsvInputs, seed \in Seeds : restart(file, seed)

SpecCatalog == InitCatalog /\ [][NextCatalog]_vars

----------------------------------------------------------------------------
(* The wishlist: table wishlist of src/api.py, table wishlists of src/app/api.py *)

MaxWishlist == 2       \* rows of the wishlist table
MaxOrder == 3          \* largest display_order an add assigns

WishlistRow(book_id, display_order) == [book_id |-> book_id, display_order |-> display_order]

\* SELECT MAX(display_order) ... or 0
max_order(rows) ==
    IF rows = <<>> THEN 0
    ELSE CHOOSE m \in { rows[i].display_order : i \in 1..Len(rows) } :
            \A i \in 1..Len(rows) : rows[i].display_order <= m

InWishlist(rows, book_id) == \E i \in 1..Len(rows) : rows[i].book_id = book_id

\* src/api.py 533-546: no check of the book, none of the wishlist
add_to_wishlist(book_id) ==
    /\ rev = "api"
    /\ pc = "idle"
    /\ Len(wishlist) < MaxWishlist
    /\ max_order(wishlist) + 1 <= MaxOrder
    /\ wishlist' = Append(wishlist, WishlistRow(book_id, max_order(wishlist) + 1))
    /\ last' = [Response("add_to_wishlist", 200, 0) EXCEPT !.book_id = book_id]
    /\ UNCHANGED <<rev, api_key, failing, hashseed, log, writers, books, ratings, dismissed, oracle>>

\* src/app/api.py 562-591
add_to_wishlist_app(book_id) ==
    /\ rev = "app"
    /\ pc = "idle"
    /\ IF ~BookExists(books, book_id)
       THEN /\ last' = [Response("add_to_wishlist", 500, 404) EXCEPT !.book_id = book_id]
            /\ UNCHANGED wishlist
       ELSE IF InWishlist(wishlist, book_id)
       THEN /\ last' = [Response("add_to_wishlist", 500, 400) EXCEPT !.book_id = book_id]
            /\ UNCHANGED wishlist
       ELSE /\ Len(wishlist) < MaxWishlist
            /\ max_order(wishlist) + 1 <= MaxOrder
            /\ wishlist' = Append(wishlist, WishlistRow(book_id, max_order(wishlist) + 1))
            /\ last' = [Response("add_to_wishlist", 200, 0) EXCEPT !.book_id = book_id]
    /\ UNCHANGED <<rev, api_key, failing, hashseed, log, writers, books, ratings, dismissed, oracle>>

\* src/api.py 548-553: DELETE FROM wishlist WHERE book_id = ?
remove_from_wishlist(book_id) ==
    /\ rev = "api"
    /\ pc = "idle"
    /\ wishlist' = SelectSeq(wishlist, LAMBDA w : w.book_id # book_id)
    /\ last' = [Response("remove_from_wishlist", 200, 0) EXCEPT !.book_id = book_id]
    /\ UNCHANGED <<rev, api_key, failing, hashseed, log, writers, books, ratings, dismissed, oracle>>

\* src/app/api.py 593-618
remove_from_wishlist_app(book_id) ==
    /\ rev = "app"
    /\ pc = "idle"
    /\ IF ~InWishlist(wishlist, book_id)
       THEN /\ last' = [Response("remove_from_wishlist", 500, 404) EXCEPT !.book_id = book_id]
            /\ UNCHANGED wishlist
       ELSE /\ wishlist' = SelectSeq(wishlist, LAMBDA w : w.book_id # book_id)
            /\ last' = [Response("remove_from_wishlist", 200, 0) EXCEPT !.book_id = book_id]
    /\ UNCHANGED <<rev, api_key, failing, hashseed, log, writers, books, ratings, dismissed, oracle>>

\* the display orders a client sends
OrderInputs == {0, 1, 2}

\* the bodies of PUT /wishlist/reorder: lists of {book_id, order}
ReorderInputs ==
    UNION { [1..n -> [book_id : BookIdInputs, order : OrderInputs]] : n \in 1..MaxWishlist }

\* UPDATE wishlist SET display_order = ? WHERE book_id = ?, item after item
RECURSIVE reorder_rows(_, _)
reorder_rows(rows, orders) ==
    IF orders = <<>> THEN rows
    ELSE reorder_rows(
            [i \in 1..Len(rows) |->
                IF rows[i].book_id = Head(orders).book_id
                THEN [rows[i] EXCEPT !.display_order = Head(orders).order]
                ELSE rows[i]],
            Tail(orders))

\* src/api.py 555-568, src/app/api.py 620-634
reorder_wishlist(orders) ==
    /\ rev \in {"api", "app"}
    /\ pc = "idle"
    /\ wishlist' = reorder_rows(wishlist, orders)
    /\ last' = Response("reorder_wishlist", 200, 0)
    /\ UNCHANGED <<rev, api_key, failing, hashseed, log, writers, books, ratings, dismissed, oracle>>

InitWishlist ==
    /\ rev \in {"api", "app"}
    /\ \E csv \in CsvFiles : books = startup_event(rev, csv)
    /\ ratings = <<>>
    /\ dismissed = <<>>
    /\ wishlist = <<>>
    /\ last = Response("startup", 200, 0)
    /\ api_key = FALSE
    /\ pc = "idle"
    /\ req = <<>>
    /\ attempt_number = 0
    /\ calls = 0
    /\ outcomes = <<>>
    /\ waits = <<>>
    /\ elapsed = 0
    /\ hashseed = 1
    /\ log = <<>>
    /\ writers = NoWriters
    /\ failing = {}

NextWishlist ==
    \/ \E b \in BookIdInputs : add_to_wishlist(b)
    \/ \E b \in BookIdInputs : add_to_wishlist_app(b)
    \/ \E b \in BookIdInputs : remove_from_wishlist(b)
    \/ \E b \in BookIdInputs : remove_from_wishlist_app(b)
    \/ \E orders \in ReorderInputs : reorder_wishlist(orders)

SpecWishlist == InitWishlist /\ [][NextWishlist]_vars

----------------------------------------------------------------------------
(* src/main.py: remove_duplicates *)

MaxDedupBooks == 3     \* rows of table books when remove_duplicates runs
MaxDedupRatings == 2   \* rows of table ratings when remove_duplicates runs

\* the titles and authors of the books in the table
DedupBookInputs == {
    [title |-> "Dune", author |-> "Frank Herbert"],
    [title |-> " dune", author |-> "FRANK HERBERT "],
    [title |-> "Emma", author |-> "Jane Austen"] }

\* the tables books may be: DBBook.id is the primary key, so the ids differ;
\* the rows are stored in any order.  An id is kept as its rank in the
\* order of ORDER BY id.
DedupBooksInputs ==
    UNION { { [i \in 1..Len(ids) |-> BookRow(ids[i], tb[i].title, tb[i].author, NoValue)] :
                ids \in Perms(S), tb \in [1..Cardinality(S) -> DedupBookInputs] } :
            S \in SUBSET (1..MaxDedupBooks) }

\* the tables ratings may be: the foreign key of DBRating.book_id is declared
\* and SQLite, with foreign_keys left off, does not check it
DedupRatingsInputs ==
    UNION { [1..n -> [book_id : 1..MaxDedupBooks, rating : {5}]] :
            n \in 0..MaxDedupRatings }

\* str.lower().strip() on the titles and authors of the model
lower_strip(s) ==
    CASE s = "Dune" -> "dune"
      [] s = " dune" -> "dune"
      [] s = "Frank Herbert" -> "frank herbert"
      [] s = "FRANK HERBERT " -> "frank herbert"
      [] s = "Emma" -> "emma"
      [] s = "Jane Austen" -> "jane austen"
      [] OTHER -> s

\* the key taken as the strings are stored
dedup_key_exact(book) == <<book.title, book.author>>

\* line 91: key = (book[1].lower().strip(), book[2].lower().strip())
dedup_key(book) == <<lower_strip(book.title), lower_strip(book.author)>>

\* lines 78-83: SELECT id, title, author FROM books ORDER BY id
order_by_id(table) ==
    [p \in 1..Len(table) |->
        table[CHOOSE i \in 1..Len(table) :
                 Cardinality({ j \in 1..Len(table) : table[j].id < table[i].id }) = p - 1]]

\* lines 86-101: the list duplicates, from the rows all_books and the dict
\* unique_books (a function from keys to ids)
RECURSIVE find_duplicates(_, _)
find_duplicates(all_books, unique_books) ==
    IF all_books = <<>> THEN <<>>
    ELSE LET book == Head(all_books)
             key == dedup_key(book)
         IN IF key \in DOMAIN unique_books
            THEN << [duplicate_id |-> book.id, original_id |-> unique_books[key]] >>
                    \o find_duplicates(Tail(all_books), unique_books)
            ELSE find_duplicates(Tail(all_books),
                    [k \in DOMAIN unique_books \cup {key} |->
                        IF k = key THEN book.id ELSE unique_books[k]])

\* lines 104-109: UPDATE ratings SET book_id = ? WHERE book_id = ?, for each
\* duplicate in turn
RECURSIVE update_ratings(_, _)
update_ratings(rows, duplicates) ==
    IF duplicates = <<>> THEN rows
    ELSE update_ratings(
            [i \in 1..Len(rows) |->
                IF rows[i].book_id = Head(duplicates).duplicate_id
                THEN [rows[i] EXCEPT !.book_id = Head(duplicates).original_id]
                ELSE rows[i]],
            Tail(duplicates))

\* line 112: DELETE FROM books WHERE id = ?, for each duplicate
delete_books(table, duplicates) ==
    SelectSeq(table, LAMBDA b : \A i \in 1..Len(duplicates) : duplicates[i].duplicate_id # b.id)

\* GET /remove-duplicates, lines 71-122
remove_duplicates ==
    /\ rev = "main"
    /\ pc = "idle"
    /\ LET duplicates == find_duplicates(order_by_id(books), <<>>)
       IN /\ ratings' = update_ratings(ratings, duplicates)
          /\ books' = delete_books(books, duplicates)
          /\ last' = [Response("remove_duplicates", 200, 0) EXCEPT
                        !.duplicates_removed = Len(duplicates)]
    /\ UNCHANGED <<rev, api_key, failing, hashseed, log, writers, dismissed, wishlist, oracle>>

\* calls of remove_duplicates on a filled database
InitDedup ==
    /\ rev = "main"
    /\ books \in DedupBooksInputs
    /\ ratings \in DedupRatingsInputs
    /\ dismissed = <<>>
    /\ wishlist = <<>>
    /\ last = Response("startup", 200, 0)
    /\ api_key = FALSE
    /\ pc = "idle"
    /\ req = <<>>
    /\ attempt_number = 0
    /\ calls = 0
    /\ outcomes = <<>>
    /\ waits = <<>>
    /\ elapsed = 0
    /\ hashseed = 1
    /\ log = <<>>
    /\ writers = NoWriters
    /\ failing = {}

NextDedup == remove_duplicates

SpecDedup == InitDedup /\ [][NextDedup]_vars

----------------------------------------------------------------------------
(* The operations that write the tables books, ratings, dismissed_books and
   wishlist, together *)

\* the service started on its database: src/api.py and src/app/api.py import
\* the CSV file, src/main.py finds the books of earlier runs
InitStore ==
    /\ rev \in {"api", "app", "main"}
    /\ IF rev = "main"
       THEN books \in DedupBooksInputs
       ELSE \E csv \in CsvFiles : books = startup_event(rev, csv)
    /\ ratings = <<>>
    /\ dismissed = <<>>
    /\ wishlist = <<>>
    /\ last = Response("startup", 200, 0)
    /\ api_key = FALSE
    /\ pc = "idle"
    /\ req = <<>>
    /\ attempt_number = 0
    /\ calls = 0
    /\ outcomes = <<>>
    /\ waits = <<>>
    /\ elapsed = 0
    /\ hashseed = 1
    /\ log = <<>>
    /\ writers = NoWriters
    /\ failing = {}

NextStore ==
    \/ \E b \in AddBookInputs : add_book(b.title, b.author)
    \/ \E b \in AddBookInputs : add_book_hashed(b.title, b.author)
    \/ \E b \in BookIdInputs, r \in RatingInputs : add_rating(b, r)
    \/ \E b \in BookIdInputs, r \in RatingInputs : submit_rating(b, r)
    \/ \E b \in 1..MaxDedupBooks, r \in RatingInputs : submit_rating_main(b, r)
    \/ \E b \in BookIdInputs : dismiss_book(b)
    \/ \E b \in BookIdInputs : add_to_wishlist(b)
    \/ \E b \in BookIdInputs : add_to_wishlist_app(b)
    \/ \E b \in BookIdInputs : remove_from_wishlist(b)
    \/ \E b \in BookIdInputs : remove_from_wishlist_app(b)
    \/ \E file \in CsvInputs : import_goodreads(file)
    \/ remove_duplicates

SpecStore == InitStore /\ [][NextStore]_vars

----------------------------------------------------------------------------
(* The Topic Scorer (section 4.1 of the design) *)

MaxTopics == 2         \* topics of one collection

\* a topic label is a string, kept here as the sequence of its characters
TopicInputs == { <<"P", "y">>, <<"p", "y">>, <<"p">>, <<"m", "l">> }

\* the orders in which a collection of at most MaxTopics topics is iterated
TopicOrders ==
    UNION { Perms(S) : S \in { T \in SUBSET TopicInputs : Cardinality(T) <= MaxTopics } }

\* the average ratings of a candidate, in units of 1/Scale
AverageInputs == {0, 270}

lower_char(c) ==
    CASE c = "P" -> "p"
      [] c = "M" -> "m"
      [] OTHER -> c

\* lower-casing of a topic
topic_lower(t) == [i \in 1..Len(t) |-> lower_char(t[i])]

\* the lower-cased topics of a collection, each once, in iteration order
RECURSIVE lowered(_)
lowered(topics) ==
    IF topics = <<>> THEN <<>>
    ELSE LET rest == lowered(SubSeq(topics, 1, Len(topics) - 1))
             t == topic_lower(topics[Len(topics)])
         IN IF t \in Range(rest) THEN rest ELSE Append(rest, t)

\* a contains b as a substring
contains(a, b) ==
    \E i \in 1..(Len(a) - Len(b) + 1) : SubSeq(a, i, i + Len(b) - 1) = b

\* what the pair (candidateTopic, likedTopic) adds to the topic score: 3 for
\* an exact match, 1 for a partial match; again_as_partial tells whether an
\* exact match counts as a partial match too
pair_score(c, l, again_as_partial) ==
    (IF c = l THEN 3 ELSE 0)
    + (IF (contains(c, l) \/ contains(l, c)) /\ (c # l \/ again_as_partial) THEN 1 ELSE 0)

\* a scan of the liked topics that stops at the first topic that matches
RECURSIVE candidate_score_first_match(_, _, _)
candidate_score_first_match(c, likedTopics, again_as_partial) ==
    IF likedTopics = <<>> THEN 0
    ELSE IF pair_score(c, Head(likedTopics), again_as_partial) > 0
    THEN pair_score(c, Head(likedTopics), again_as_partial)
    ELSE candidate_score_first_match(c, Tail(likedTopics), again_as_partial)

\* what one candidate topic adds: the sum over the liked topics
RECURSIVE candidate_score(_, _, _)
candidate_score(c, likedTopics, again_as_partial) ==
    IF likedTopics = <<>> THEN 0
    ELSE pair_score(c, Head(likedTopics), again_as_partial)
            + candidate_score(c, Tail(likedTopics), again_as_partial)

\* topicScore = exactMatches * 3 + partialMatches * 1
RECURSIVE topic_score(_, _, _)
topic_score(candidateTopics, likedTopics, again_as_partial) ==
    IF candidateTopics = <<>> THEN 0
    ELSE candidate_score(Head(candidateTopics), likedTopics, again_as_partial)
            + topic_score(Tail(candidateTopics), likedTopics, again_as_partial)

\* finalScore = topicScore * 2 + averageRating, in units of 1/Scale
score(candidateTopics, likedTopics, averageRating, again_as_partial) ==
    topic_score(lowered(candidateTopics), lowered(likedTopics), again_as_partial) * 2 * Scale
        + averageRating

\* one evaluation of the scorer on the inputs of req
score_candidate ==
    /\ rev = "scorer"
    /\ pc = "idle"
    /\ req' = [req EXCEPT !.score = score(req.candidateTopics, req.likedTopics,
                                          req.averageRating, req.again_as_partial)]
    /\ pc' = "done"
    /\ UNCHANGED <<rev, api_key, failing, hashseed, log, writers, store, last,
                   attempt_number, calls, outcomes, waits, elapsed>>

InitScorer ==
    /\ rev = "scorer"
    /\ books = <<>>
    /\ ratings = <<>>
    /\ dismissed = <<>>
    /\ wishlist = <<>>
    /\ last = Response("startup", 200, 0)
    /\ api_key = FALSE
    /\ pc = "idle"
    /\ req \in [candidateTopics : TopicOrders, likedTopics : TopicOrders,
                 averageRating : AverageInputs, again_as_partial : BOOLEAN,
                 score : {NoValue}]
    /\ attempt_number = 0
    /\ calls = 0
    /\ outcomes = <<>>
    /\ waits = <<>>
    /\ elapsed = 0
    /\ hashseed = 1
    /\ log = <<>>
    /\ writers = NoWriters
    /\ failing = {}

NextScorer == score_candidate

SpecScorer == InitScorer /\ [][NextScorer]_vars

\* the reads that fail in a run: none or one of those the revision makes (the
\* first failing read ends the request); src/main.py without a failing read is
\* the subject of SpecEngine
FaultInputs(r) ==
    { {point} : point \in ReadPointsOf(r) } \cup (IF r = "main" THEN {} ELSE {{}})

\* get-recommendations requests on a datastore some of whose reads fail
InitFaults ==
    /\ rev \in {"api", "app", "main"}
    /\ IF rev = "main" THEN books \in AvailableBooksInputs
       ELSE \E csv \in CsvFiles : books = startup_event(rev, csv)
    /\ ratings = <<>>
    /\ dismissed = <<>>
    /\ wishlist = <<>>
    /\ last = Response("startup", 200, 0)
    /\ api_key \in BOOLEAN
    /\ pc = "idle"
    /\ req = <<>>
    /\ attempt_number = 0
    /\ calls = 0
    /\ outcomes = <<>>
    /\ waits = <<>>
    /\ elapsed = 0
    /\ hashseed = 1
    /\ log = <<>>
    /\ writers = NoWriters
    /\ failing \in FaultInputs(rev)

NextFaults ==
    \/ \E ur \in UserRatingsInputs : get_recommendations(ur)
    \/ \E uh \in UserHistoryInputs, ur \in UserRatingsInputs : get_recommendations_app(uh, ur)
    \/ generate_gemini_recommendations
    \/ tenacity_retry
    \/ /\ rev = "main"
       /\ pc = "idle"
       /\ \E ur \in EngineRatingsInputs(books), n \in NumRecommendationsInputs,
             response \in EngineResponses(Len(books)) :
               get_recommendations_main(ur, n, response)

SpecFaults == InitFaults /\ [][NextFaults]_vars

\* calls of log_recommendations in two processes of the service
InitLog ==
    /\ rev \in {"api", "app"}
    /\ \E csv \in CsvFiles : books = startup_event(rev, csv)
    /\ ratings = <<>>
    /\ dismissed = <<>>
    /\ wishlist = <<>>
    /\ last = Response("startup", 200, 0)
    /\ api_key = FALSE
    /\ pc = "idle"
    /\ req = <<>>
    /\ attempt_number = 0
    /\ calls = 0
    /\ outcomes = <<>>
    /\ waits = <<>>
    /\ elapsed = 0
    /\ hashseed = 1
    /\ log = <<>>
    /\ writers = NoWriters
    /\ failing = {}

NextLog ==
    \/ \E w \in Writers, n \in 0..MaxLogBooks : log_recommendations(w, n)
    \/ \E w \in Writers : f_write(w)
    \/ \E w \in Writers : f_close(w)

SpecLog == InitLog /\ [][NextLog]_vars

----------------------------------------------------------------------------
(* Properties *)

Recommended == last.op = "get_recommendations" /\ last.status = 200

RecommendedIds == { last.recommendations[i].id : i \in 1..Len(last.recommendations) }

\* the title and author of a candidate, without what formatting adds
Nominal(c) == RawItem(c.title, c.author)

\* v is one of the lists get_fallback_recommendations() returns, formatted or not
IsFallbackList(v) == [i \in 1..Len(v) |-> Nominal(v[i])] \in get_fallback_recommendations

OracleReturned == pc = "done" /\ last.op = "get_recommendations" /\ Len(books) > 0

RateOps == {"add_rating", "rate_book", "submit_rating"}

\* C1: a get-recommendations result never contains a book whose id is a key
\* of the request's user_ratings.
C1_NoRatedBookRecommended ==
    Recommended => RecommendedIds \cap DOMAIN last.user_ratings = {}

\* C2: a book that was dismissed successfully is in no later
\* get-recommendations result.
C2_DismissedNeverRecommended ==
    Recommended => RecommendedIds \cap Range(dismissed) = {}

\* C3: when every model invocation of a call timed out, the model was invoked
\* exactly 3 times and the caller got the fallback list, not an error.
C3_ThreeTimeoutsThenFallback ==
    (OracleReturned /\ outcomes # <<>> /\ \A i \in 1..Len(outcomes) : outcomes[i] = "timeout")
        => /\ calls = 3
           /\ ~last.oracle.raised
           /\ last.status = 200
           /\ IsFallbackList(last.oracle.value)

C3_Witness ==
    /\ OracleReturned
    /\ outcomes = <<"timeout", "timeout", "timeout">>
    /\ last.status = 200

\* C4: an unparseable model response is never retried: the invocation whose
\* response failed to parse is the last one of the call, and the call has
\* returned the fallback list.
C4_ParseFailureNotRetried ==
    \A i \in 1..Len(outcomes) :
        outcomes[i] = "parse"
            => /\ i = Len(outcomes)
               /\ pc = "done"
               /\ ~last.oracle.raised
               /\ IsFallbackList(last.oracle.value)

C4_Witness ==
    /\ OracleReturned
    /\ Len(outcomes) = 2
    /\ outcomes[1] = "timeout"
    /\ outcomes[2] = "parse"

\* C5: get_personalized_recommendations never raises to its caller; it
\* returns a list whatever the credential, the outcomes of the invocations
\* and the items of the answer are.
C5_OracleNeverRaises ==
    /\ ~last.oracle.raised
    /\ OracleReturned => last.status = 200

C5_Witness ==
    /\ OracleReturned
    /\ outcomes # <<>>
    /\ outcomes[Len(outcomes)] = "number"
    /\ ~last.oracle.raised

\* C6: without a credential the oracle returns exactly the fallback set,
\* min(5, pool size) distinct books of the pool, and never invokes the model.
C6_NoCredentialFallback ==
    ~api_key =>
        /\ calls = 0
        /\ (OracleReturned /\ last.status = 200) =>
              /\ IsFallbackList(last.oracle.value)
              /\ Len(last.oracle.value) = Min(5, Len(FallbackPool))
              /\ { Nominal(c) : c \in Range(last.oracle.value) } \subseteq Range(FallbackPool)
              /\ Cardinality(Range(last.oracle.value)) = Len(last.oracle.value)

C6_Witness ==
    /\ ~api_key
    /\ OracleReturned
    /\ last.status = 200
    /\ attempt_number = 1

\* C7: every candidate the oracle returns carries the id derived from its
\* title and author.
C7_CandidatesCarryDerivedId ==
    (OracleReturned /\ last.status = 200) =>
        \A c \in Range(last.oracle.value) : c.id = generate_book_id(c.title, c.author)

\* C8: every stored rating lies in 1..5, and a submission of a value outside
\* 1..5 is rejected and leaves the ratings rows and the stored averages as
\* they were.
C8_RatingsInRange ==
    /\ [](\A i \in 1..Len(ratings) : ratings[i].rating \in 1..5)
    /\ [][(last'.op \in RateOps /\ last'.rating \notin 1..5)
            => (last'.status # 200 /\ ratings' = ratings /\ books' = books)]_vars

C8_Witness ==
    /\ last.op \in RateOps
    /\ last.rating = 6
    /\ last.status # 200
    /\ BookExists(books, last.book_id)
    /\ ratings # <<>>

C10_AverageIsMean ==
    (rev \in {"api", "app", "br"} /\ last.op \in RateOps /\ last.status = 200) =>
        \A i \in 1..Len(books) :
            books[i].id = last.book_id =>
                /\ books[i].average_rating = AVG(ratings, last.book_id)
                /\ last.average_rating \in {NoValue, AVG(ratings, last.book_id)}

\* C11: a rating outside 1..5, or an unknown book id on rate or dismiss,
\* reaches the caller as a client error (status 4xx), not as a server error
\* and not as a success.
C11_FailuresAreClientErrors ==
    (/\ last.op \in RateOps \cup {"dismiss_book"}
     /\ \/ ~BookExists(books, last.book_id)
        \/ (last.op \in RateOps /\ last.rating \notin 1..5))
        => last.status \in 400..499

\* C12: when every catalog book is rated or dismissed, the answer of
\* get-recommendations is a success that carries the empty sequence.
C12_NoEligibleGivesEmptyResult ==
    (/\ last.op = "get_recommendations"
     /\ last.status # 0
     /\ BookIds(books) \subseteq (DOMAIN last.user_ratings \cup Range(dismissed)))
        => (last.status = 200 /\ last.recommendations = <<>>)

\* the average rating a get-recommendations answer gives a book: the Book
\* object's own in src/main.py, the mean of its rating rows (0 without rows)
\* in the other revisions
AverageOf(b) == IF rev = "main" THEN b.avg_rating ELSE OrZero(AVG(ratings, b.id))

\* the position of a book in the retrieval order
RowIndex(id) == CHOOSE i \in 1..Len(books) : books[i].id = id

\* the books that are neither rated in the request nor dismissed, in
\* retrieval order
Eligible ==
    SelectSeq(books, LAMBDA b : b.id \notin (DOMAIN last.user_ratings \cup Range(dismissed)))

\* the number of books asked for
NumRecommendations == IF rev = "main" THEN req.num_recommendations ELSE RecLimit

LikedIds == { k \in DOMAIN last.user_ratings : last.user_ratings[k] >= 4 }

\* C13: when no rated book has a rating of 4 or more, the result is the
\* eligible books, each once, in descending order of average rating, books of
\* equal average in retrieval order, cut to the number asked for.
C13_NoLikedRanksByAverage ==
    (Recommended /\ LikedIds = {}) =>
        LET recs == last.recommendations
        IN /\ Len(recs) = Min(NumRecommendations, Len(Eligible))
           /\ RecommendedIds \subseteq BookIds(Eligible)
           /\ \A i, j \in 1..Len(recs) :
                i < j => \/ AverageOf(recs[i]) > AverageOf(recs[j])
                         \/ /\ AverageOf(recs[i]) = AverageOf(recs[j])
                            /\ RowIndex(recs[i].id) < RowIndex(recs[j].id)
           /\ \A i \in 1..Len(recs) : \A k \in 1..Len(Eligible) :
                Eligible[k].id \notin RecommendedIds =>
                    \/ AverageOf(recs[i]) > AverageOf(Eligible[k])
                    \/ /\ AverageOf(recs[i]) = AverageOf(Eligible[k])
                       /\ RowIndex(recs[i].id) < RowIndex(Eligible[k].id)

\* str.lower() on the topic labels of the model
lower(t) ==
    CASE t = "Python" -> "python"
      [] t = "ML" -> "ml"
      [] t = "Cooking" -> "cooking"
      [] OTHER -> t

LoweredTopics(b) == { lower(t) : t \in b.topics }

\* b shares a topic, case-insensitively, with a book the request rates 4 or more
SharesLikedTopic(b) ==
    \E i \in 1..Len(books) :
        /\ books[i].id \in LikedIds
        /\ LoweredTopics(books[i]) \cap LoweredTopics(b) # {}

\* C14: when a liked book exists, an eligible book that shares a topic with a
\* liked book is ranked above every eligible book that shares no topic with
\* any liked book.
C14_SharedTopicRankedAbove ==
    (Recommended /\ LikedIds # {}) =>
        \A b, c \in Range(Eligible) :
            (SharesLikedTopic(b) /\ ~SharesLikedTopic(c)) =>
                \A j \in 1..Len(last.recommendations) :
                    last.recommendations[j].id = c.id =>
                        \E i \in 1..(j - 1) : last.recommendations[i].id = b.id

AllTimedOut ==
    /\ OracleReturned
    /\ outcomes # <<>>
    /\ \A i \in 1..Len(outcomes) : outcomes[i] = "timeout"

\* C18 as claimed: when every attempt times out, the waits are 4 and then 8,
\* no wait exceeds 10, and the fallback is returned within
\* 15 + 4 + 15 + 8 + 15 time units.
C18_WaitsFourThenEight ==
    AllTimedOut =>
        /\ waits = <<4, 8>>
        /\ \A i \in 1..Len(waits) : waits[i] <= 10
        /\ elapsed <= 15 + 4 + 15 + 8 + 15

\* C18 as amended: when every attempt times out, the waits are 4 and then 4,
\* no wait exceeds 10, and the fallback is returned no later than
\* 15 + 4 + 15 + 4 + 15 time units after the call started.
C18_WaitsFourThenFour ==
    /\ \A i \in 1..Len(waits) : waits[i] <= 10
    /\ AllTimedOut =>
        /\ waits = <<4, 4>>
        /\ elapsed <= 15 + 4 + 15 + 4 + 15
        /\ IsFallbackList(last.oracle.value)

C18_Witness ==
    /\ AllTimedOut
    /\ Len(waits) = 2
    /\ elapsed = 53
    /\ last.status = 200

\* the number of entries the log holds
LogEntries(l) == Cardinality({ i \in 1..Len(l) : l[i].kind = "open" })

\* C15: every get-recommendations call that returns a result adds exactly one
\* entry to the recommendation log, and no step rewrites or removes what the
\* log already holds.
C15_OneLogEntryPerCall ==
    [][/\ (last'.op = "get_recommendations" /\ last'.status = 200)
            => LogEntries(log') = LogEntries(log) + 1
       /\ Len(log) <= Len(log')
       /\ SubSeq(log', 1, Len(log)) = log]_vars

\* C16: the lines of one entry, from its opening separator to its
\* end-of-entry marker, are contiguous in the log file.
C16_LogEntriesContiguous ==
    \A i, j \in 1..Len(log) :
        (i < j /\ log[i].writer = log[j].writer)
            => \A k \in i..j : log[k].writer = log[i].writer

\* C17: a get-recommendations step leaves the books, ratings, dismissed and
\* wishlist rows as they were.
C17_GetRecommendationsReadOnly ==
    [][last'.op = "get_recommendations" => store' = store]_vars

\* C19: a title and author identify one book row: adding or importing the
\* same title and author again, in the same or a later run, gives the same
\* identifier and no second row.
C19_OneRowPerTitleAndAuthor ==
    \A i, j \in 1..Len(books) :
        (books[i].title = books[j].title /\ books[i].author = books[j].author)
            => (i = j /\ books[i].id = books[j].id)

\* C20: no two wishlist entries have the same display_order, and the entry a
\* successful add has appended has a display_order greater than that of
\* every other entry.
C20_DisplayOrderTotal ==
    /\ \A i, j \in 1..Len(wishlist) :
          wishlist[i].display_order = wishlist[j].display_order => i = j
    /\ (last.op = "add_to_wishlist" /\ last.status = 200) =>
          \A i \in 1..(Len(wishlist) - 1) :
              wishlist[i].display_order < wishlist[Len(wishlist)].display_order

\* a read the last get-recommendations request made has failed
ReadFailed ==
    IF rev = "app"
    THEN \/ "count" \in failing
         \/ Len(books) > 0 /\ "select" \in failing
         \/ Len(books) > 0 /\ ~last.oracle.raised /\ last.oracle.value = <<>> /\ "default" \in failing
    ELSE "select" \in failing

\* C21: when a datastore read fails during get-recommendations, the caller
\* gets an error response that carries no recommendation list.
C21_ReadFailureGivesErrorOnly ==
    (last.op = "get_recommendations" /\ pc \in {"idle", "done"} /\ ReadFailed)
        => (last.status = 500 /\ last.recommendations = <<>>)

C21_Witness ==
    /\ rev = "app"
    /\ failing = {"default"}
    /\ pc = "done"
    /\ last.op = "get_recommendations"
    /\ outcomes # <<>>
    /\ last.oracle.value = <<>>
    /\ last.status = 500

\* C22: the score does not depend on the order in which the candidate's
\* topics and the liked topics are iterated: every order of the two
\* collections gives the score that was computed.
C22_ScoreOrderIndependent ==
    (rev = "scorer" /\ pc = "done") =>
        \A c \in Perms(Range(req.candidateTopics)), l \in Perms(Range(req.likedTopics)) :
            score(c, l, req.averageRating, req.again_as_partial) = req.score

C22_Witness ==
    /\ rev = "scorer"
    /\ pc = "done"
    /\ req.candidateTopics = << <<"p">>, <<"P", "y">> >>
    /\ req.likedTopics = << <<"p", "y">>, <<"m", "l">> >>
    /\ req.averageRating = 270
    /\ ~req.again_as_partial
    /\ req.score = (3 + 1) * 2 * Scale + 270

\* C23: a get-recommendations answer lists at most the number of books asked
\* for (5), whichever path produced the list.
C23_AtMostNumRecommendations ==
    Recommended => Len(last.recommendations) <= NumRecommendations

\* the steps a running oracle call can still take: an attempt and a sleep for
\* each of the 3 attempts, the last attempt without a sleep
StepsLeft ==
    CASE pc = "attempt" -> 2 * (3 - attempt_number) + 1
      [] pc = "sleep" -> 2 * (3 - attempt_number)
      [] OTHER -> 0

\* C24: an oracle call never invokes the model more than 3 times; every step
\* of a running call brings it nearer to its end, so no call retries
\* forever; and a call that has ended has given the model's list or a
\* fallback list, whatever the outcomes of its attempts were.
C24_OracleTerminatesWithinThree ==
    /\ [](calls <= 3 /\ Len(outcomes) <= 3 /\ StepsLeft >= 0)
    /\ [](OracleReturned => (~last.oracle.raised /\ last.status = 200))
    /\ [][(pc \in {"attempt", "sleep"}) => (StepsLeft' < StepsLeft)]_vars

C24_Witness ==
    /\ OracleReturned
    /\ calls = 3
    /\ outcomes[1] = "timeout"
    /\ outcomes[2] = "timeout"
    /\ outcomes[3] \in {"error", "parse", "empty", "list", "number", "object"}

\* C25: an attempt is followed by another one only when it timed out; an
\* invocation that failed with another exception is the last one of its call,
\* and the call has returned the fallback list.
C25_OnlyTimeoutRetried ==
    /\ \A i \in 1..(Len(outcomes) - 1) : outcomes[i] = "timeout"
    /\ \A i \in 1..Len(outcomes) :
          outcomes[i] = "error"
              => /\ calls = i
                 /\ pc = "done"
                 /\ last.status = 200
                 /\ IsFallbackList(last.oracle.value)

C25_Witness ==
    /\ OracleReturned
    /\ outcomes = <<"timeout", "error">>
    /\ calls = 2
    /\ IsFallbackList(last.oracle.value)

\* the books of available_books the request does not rate
Unrated == SelectSeq(books, LAMBDA b : b.id \notin DOMAIN last.user_ratings)

\* the try block of the engine, run with a liked book, ended in an exception:
\* the model call failed or its answer was no ranking of the unrated books
RankingFailed ==
    /\ rev = "main"
    /\ last.op = "get_recommendations"
    /\ LikedIds # {}
    /\ Unrated # <<>>
    /\ last.oracle.raised

\* C26: when the model call fails or its answer cannot be read as a ranking,
\* the engine does not raise and returns the unrated books of highest
\* avg_rating, in descending order of avg_rating, at most num_recommendations.
C26_RankingFailureFallsBack ==
    RankingFailed =>
        LET recs == last.recommendations
        IN /\ last.status = 200
           /\ Len(recs) = Min(req.num_recommendations, Len(Unrated))
           /\ Range(recs) \subseteq Range(Unrated)
           /\ \A i, j \in 1..Len(recs) :
                /\ i < j => recs[i].avg_rating >= recs[j].avg_rating
                /\ recs[i] = recs[j] => i = j
           /\ \A b \in Range(Unrated) \ Range(recs) : \A i \in 1..Len(recs) :
                recs[i].avg_rating >= b.avg_rating

C26_Witness ==
    /\ RankingFailed
    /\ last.status = 200
    /\ Len(last.recommendations) = 2
    /\ last.recommendations[1].avg_rating > last.recommendations[2].avg_rating

\* the engine has returned what it picked by the model's ranking
RankingUsed ==
    /\ rev = "main"
    /\ last.op = "get_recommendations"
    /\ last.status = 200
    /\ LikedIds # {}
    /\ Unrated # <<>>
    /\ ~last.oracle.raised

\* C27: when the engine uses the model's ranking, the i-th returned book is
\* the unrated book at the 1-based position that the i-th number of the
\* answer names, and no book is returned twice.
C27_RankedBooksByPositionOnce ==
    RankingUsed =>
        LET recs == last.recommendations
            rankings == req.response.rankings
        IN /\ \A i \in 1..Len(recs) :
                /\ rankings[i] \in 1..Len(Unrated)
                /\ recs[i] = Unrated[rankings[i]]
           /\ \A i, j \in 1..Len(recs) : recs[i] = recs[j] => i = j

\* the title and author of a book, lower-cased and trimmed
NormalKey(b) == <<lower_strip(b.title), lower_strip(b.author)>>

\* the id of the book that stands for the book id in its group of
\* duplicates: the least id of the books of equal title and author
KeptId(table, id) ==
    IF \E i \in 1..Len(table) : table[i].id = id
    THEN LET b == table[CHOOSE i \in 1..Len(table) : table[i].id = id]
             group == { table[i].id : i \in { k \in 1..Len(table) : NormalKey(table[k]) = NormalKey(b) } }
         IN CHOOSE m \in group : \A n \in group : m <= n
    ELSE id

\* C28: a call of remove_duplicates leaves no two books of equal lower-cased,
\* trimmed title and author, keeps of each group of duplicates the book of
\* least id, makes every rating of a removed book a rating of the kept book,
\* and neither adds nor removes a rating row.
C28_RemoveDuplicates ==
    [][(last'.op = "remove_duplicates" /\ last'.status = 200) =>
          /\ \A i, j \in 1..Len(books') :
                NormalKey(books'[i]) = NormalKey(books'[j]) => i = j
          /\ books' = SelectSeq(books, LAMBDA b : KeptId(books, b.id) = b.id)
          /\ Len(ratings') = Len(ratings)
          /\ \A k \in 1..Len(ratings) :
                /\ ratings'[k].rating = ratings[k].rating
                /\ ratings'[k].book_id = KeptId(books, ratings[k].book_id)]_vars

C28_Witness ==
    /\ last.op = "remove_duplicates"
    /\ last.duplicates_removed = 2
    /\ Len(books) = 1
    /\ books[1].title = " dune"
    /\ Len(ratings) = 2
    /\ \A k \in 1..Len(ratings) : ratings[k].book_id = books[1].id

\* C29: every row of ratings, of dismissed_books and of wishlist names the
\* id of a row of books.
C29_RowsReferenceBooks ==
    /\ \A i \in 1..Len(ratings) : ratings[i].book_id \in BookIds(books)
    /\ \A i \in 1..Len(dismissed) : dismissed[i] \in BookIds(books)
    /\ \A i \in 1..Len(wishlist) : wishlist[i].book_id \in BookIds(books)

\* C30: whenever get_personalized_recommendations has returned, the list it
\* returned holds at least one recommendation.
C30_OracleNeverEmpty ==
    (OracleReturned /\ ~last.oracle.raised) => last.oracle.value # <<>>

====
